---- MODULE Spec2Model ----
(***************************************************************************)
(* Runtime support of nebula's generated code: the stack guard             *)
(* (check_stack, check_call_stack) and the console I/O primitives of the   *)
(* three runtime variants codegen/lib/io.c, codegen/ext/ext.c and          *)
(* ir/codegen/ext/ext.c.                                                   *)
(*                                                                         *)
(* 64-bit quantities (uint64_t, int64_t) are tuples of four 16-bit limbs,  *)
(* most significant first, so that wrap-around and truncation are computed *)
(* as the machine computes them.  Text is a sequence of byte codes.        *)
(*                                                                         *)
(* Spec     a generated program working on its stacks behind the guard     *)
(* SpecIO   a generated program using the I/O primitives of ext.c          *)
(* SpecPipe a byte written by one process and read back by a second one    *)
(* SpecEq   the three variants run side by side on the same calls          *)
(***************************************************************************)
EXTENDS Integers, Sequences, FiniteSets, TLC

\* ------------------------------------------------------------------ bounds
MaxDepth == 3      \* pushes the generated program performs at most
MaxCalls == 2      \* nested calls the generated program performs at most
MaxIn == 2      \* length of the input stream
MaxOut == 2      \* bytes already on standard output when a print may start
MaxReads == 4      \* byte reads recorded in the history
MaxEqOps == 3      \* calls made in the side-by-side run of the variants

\* ------------------------------------------------------- machine integers
Limb == 65536

\* uint64_t / int64_t of a small natural number
U64Of(k) == <<0, 0, k \div Limb, k % Limb>>

\* the largest uint64_t
U64Max == <<Limb - 1, Limb - 1, Limb - 1, Limb - 1>>

\* unsigned comparison a < b
RECURSIVE LimbsLt(_, _, _)
LimbsLt(a, b, i) ==
  IF i > 4 THEN FALSE
  ELSE IF a[i] # b[i] THEN a[i] < b[i]
  ELSE LimbsLt(a, b, i + 1)

U64Lt(a, b) == LimbsLt(a, b, 1)

\* a + 1 modulo 2^64
U64Inc(a) ==
  LET c4 == IF a[4] = Limb - 1 THEN 1 ELSE 0
      c3 == IF c4 = 1 /\ a[3] = Limb - 1 THEN 1 ELSE 0
      c2 == IF c3 = 1 /\ a[2] = Limb - 1 THEN 1 ELSE 0
  IN  <<(a[1] + c2) % Limb, (a[2] + c3) % Limb, (a[3] + c4) % Limb, (a[4] + 1) % Limb>>

\* a - b modulo 2^64
U64Sub(a, b) ==
  LET b4 == IF a[4] < b[4] THEN 1 ELSE 0
      b3 == IF a[3] < b[3] + b4 THEN 1 ELSE 0
      b2 == IF a[2] < b[2] + b3 THEN 1 ELSE 0
  IN  <<(a[1] - b[1] - b2) % Limb, (a[2] - b[2] - b3) % Limb,
        (a[3] - b[3] - b4) % Limb, (a[4] - b[4]) % Limb>>

\* conversion int -> int64_t (sign extension)
SExt(i) ==
  IF i >= 0 THEN <<0, 0, i \div Limb, i % Limb>>
  ELSE <<Limb - 1, Limb - 1, (i \div Limb) + Limb, i % Limb>>

\* conversion int64_t -> int: the low 32 bits, read as two's complement
Int32(x) ==
  IF x[3] >= Limb \div 2 THEN (x[3] - Limb) * Limb + x[4] ELSE x[3] * Limb + x[4]

\* conversion int -> unsigned char, as fputc performs it
UChar(x) == x[4] % 256

\* ------------------------------------------------------------------- text
\* decimal digits of a natural number
RECURSIVE Digits(_)
Digits(k) == IF k < 10 THEN <<48 + k>> ELSE Append(Digits(k \div 10), 48 + (k % 10))

\* printf("%d", x) for an int x; the last digit of a negative number is
\* split off first so that -2^31 is never negated
FormatD(x) ==
  IF x >= 0 THEN Digits(x)
  ELSE LET d == (10 - (x % 10)) % 10
           q == (0 - ((x + d) \div 10))
       IN  <<45>> \o (IF q = 0 THEN <<>> ELSE Digits(q)) \o <<48 + d>>

StackUnderflowAt == <<115, 116, 97, 99, 107, 32, 117, 110, 100, 101, 114, 102, 108, 111, 119, 32, 97, 116, 32>>
CallStackUnderflowAt == <<99, 97, 108, 108, 32, 115, 116, 97, 99, 107, 32, 117, 110, 100, 101, 114, 102, 108, 111, 119, 32, 97, 116, 32>>
DataStackUnderflowIn == <<68, 97, 116, 97, 32, 115, 116, 97, 99, 107, 32, 117, 110, 100, 101, 114, 102, 108, 111, 119, 32, 105, 110, 32>>
CallStackUnderflowIn == <<67, 97, 108, 108, 32, 115, 116, 97, 99, 107, 32, 117, 110, 100, 101, 114, 102, 108, 111, 119, 32, 105, 110, 32>>
At == <<32, 97, 116, 32>>

\* ----------------------------------------------------------------- inputs
\* location tags the code generator supplies: "block_A", "L1"; positions "3", "12"
\* (identifiers of generated blocks: no tag contains a newline)
Locs == { <<98, 108, 111, 99, 107, 95, 65>>, <<76, 49>> }
Poss == { <<51>>, <<49, 50>> }

\* required depths
NArgs == { U64Of(0), U64Of(1), U64Of(2), U64Of(3), U64Max }

\* bytes of the input stream
InBytes == { 0, 65, 255 }

RECURSIVE SeqsUpTo(_, _)
SeqsUpTo(S, k) ==
  IF k = 0 THEN { <<>> }
  ELSE LET T == SeqsUpTo(S, k - 1)
       IN  T \cup { Append(t, s) : t \in { u \in T : Len(u) = k - 1 }, s \in S }

Inputs == SeqsUpTo(InBytes, MaxIn)

\* arguments of printc / print_byte: 'A', 'A' + 256, -1
ByteArgs == { U64Of(65), U64Of(321), SExt(0 - 1) }

\* arguments of printi / print_int:
\* 0, -42, 2^31-1, -2^31, 2^31, 2^32+7, -2^31-1, 2^63-1
IntArgs == { SExt(0), SExt(0 - 42), SExt(2147483647), SExt((0 - 32768) * Limb),
             <<0, 0, 32768, 0>>, <<0, 1, 0, 7>>,
             <<Limb - 1, Limb - 1, 32767, Limb - 1>>,
             <<32767, Limb - 1, Limb - 1, Limb - 1>> }

GuardVariants == { "ext", "ir" }
Variants == { "lib", "ext", "ir" }

VARIABLES
  variant,         \* the runtime the generated program is linked against
  stack_len,       \* uint64_t stack_len
  call_stack_len,  \* uint64_t call_stack_len
  stack,           \* the data stack storage, owned by the generated program
  calls,           \* the call stack storage, owned by the generated program
  pc,              \* "run", "checked", "checked_call", "exited"
  need,            \* the depth the last passing check_stack was asked for
  exit_status,     \* <<>> while the process runs, <<status>> once it ended
  io,              \* [in: unread stdin, obuf: buffered stdout, out: delivered stdout]
  stderr,          \* text delivered on the error stream
  syslog,          \* the calls made on the error stream and exit, in order
  call,            \* the last operation: [fn, arg, loc, ret]
  rets,            \* values returned by the byte reads so far
  stdin0,          \* the input stream the process was started with
  link,            \* side-by-side run: [ops, undef, rt: variant -> [io, ret]]
  pipe             \* round trip: [variant, c, stage, writer, reader, ret]

guardVars == <<stack_len, call_stack_len, stack, calls, pc, need, exit_status, stderr, syslog>>
procVars == <<variant, stack_len, call_stack_len, stack, calls, pc, need, exit_status,
              io, stderr, syslog, call, rets, stdin0>>
vars == <<variant, stack_len, call_stack_len, stack, calls, pc, need, exit_status,
          io, stderr, syslog, call, rets, stdin0, link, pipe>>

NoCall == [fn |-> "none", arg |-> <<>>, loc |-> <<>>, ret |-> <<>>]
IO0(input) == [in |-> input, obuf |-> <<>>, out |-> <<>>]
LinkOf(input) == [ops |-> 0, undef |-> FALSE,
                  rt |-> [v \in Variants |-> [io |-> IO0(input), ret |-> <<>>]]]
Link0 == LinkOf(<<>>)
Pipe0 == [variant |-> "ext", c |-> 0, stage |-> "idle", writer |-> IO0(<<>>),
          reader |-> IO0(<<>>), ret |-> <<>>]

\* ------------------------------------------------------------- libc model
\* exit(): every open output stream is flushed
ExitFlush(s) == [s EXCEPT !.out = s.out \o s.obuf, !.obuf = <<>>]

\* fputc(c, stream): the byte (unsigned char) c is appended to the stream's buffer
fputc(s, c) == [s EXCEPT !.obuf = Append(s.obuf, UChar(c))]

\* fgetc(stream): the next byte of stdin, or EOF (-1) when none is left.
\* On a stream that is not open for reading (stdout) nothing is consumed and
\* the result is EOF (POSIX: EBADF, error indicator set).
fgetc(s, stream) ==
  IF stream = "stdin" /\ s.in # <<>>
  THEN [io |-> [s EXCEPT !.in = Tail(s.in)], c |-> Head(s.in)]
  ELSE [io |-> s, c |-> 0 - 1]

\* fflush(stdout)
fflush(s) == [s EXCEPT !.out = s.out \o s.obuf, !.obuf = <<>>]

IsSpace(b) == b \in { 9, 10, 11, 12, 13, 32 }
IsDigit(b) == b \in 48..57

RECURSIVE SkipSpace(_)
SkipSpace(in) == IF in # <<>> /\ IsSpace(Head(in)) THEN SkipSpace(Tail(in)) ELSE in

\* the digits at the front of in: [in: what follows them, acc: their value, n: how many]
RECURSIVE ScanDigits(_, _, _)
ScanDigits(in, acc, n) ==
  IF in # <<>> /\ IsDigit(Head(in))
  THEN ScanDigits(Tail(in), acc * 10 + (Head(in) - 48), n + 1)
  ELSE [in |-> in, acc |-> acc, n |-> n]

\* scanf("%d", &i): white space is skipped, then an optional sign and the
\* digits are consumed; i is assigned only when at least one digit was read
\* (n, the number of items assigned, is scanf's result, which no caller reads)
ScanD(s, i) ==
  LET a    == SkipSpace(s.in)
      sgn  == a # <<>> /\ Head(a) \in { 43, 45 }
      b    == IF sgn THEN Tail(a) ELSE a
      d    == ScanDigits(b, 0, 0)
      v    == IF sgn /\ Head(a) = 45 THEN 0 - d.acc ELSE d.acc
  IN  [io |-> [s EXCEPT !.in = d.in], i |-> IF d.n > 0 THEN v ELSE i,
       n |-> IF d.n > 0 THEN 1 ELSE 0]

\* ------------------------------------------------- codegen/lib/io.c
lib_printc(s, c) == fputc(s, c)

lib_printi(s, i) == [s EXCEPT !.obuf = s.obuf \o FormatD(Int32(i))]

lib_readc(s) ==
  LET r == fgetc(s, "stdout") IN [io |-> r.io, ret |-> SExt(r.c)]

\* i0 is the indeterminate value the local i holds before scanf
lib_readi(s, i0) ==
  LET r == ScanD(s, i0) IN [io |-> r.io, ret |-> SExt(r.i)]

lib_flush(s) == fflush(s)

\* ------------------------------------------------- codegen/ext/ext.c
ext_printc(s, c) == fputc(s, c)

\* printf("%d", (short) i)
ext_printi_short(s, i) ==
  [s EXCEPT !.obuf = s.obuf \o FormatD(IF i[4] >= Limb \div 2 THEN i[4] - Limb ELSE i[4])]

ext_printi(s, i) == [s EXCEPT !.obuf = s.obuf \o FormatD(Int32(i))]

\* fgetc(stdout), as in codegen/lib/io.c
ext_readc_stdout(s) ==
  LET r == fgetc(s, "stdout") IN [io |-> r.io, ret |-> SExt(r.c)]

ext_readc(s) ==
  LET r == fgetc(s, "stdin") IN [io |-> r.io, ret |-> SExt(r.c)]

ext_readi(s, i0) ==
  LET r == ScanD(s, i0) IN [io |-> r.io, ret |-> SExt(r.i)]

ext_flush(s) == fflush(s)

\* ------------------------------------------------- ir/codegen/ext/ext.c
ir_print_byte(s, b) == fputc(s, b)

ir_print_int(s, i) == [s EXCEPT !.obuf = s.obuf \o FormatD(Int32(i))]

ir_read_byte(s) ==
  LET r == fgetc(s, "stdin") IN [io |-> r.io, ret |-> SExt(r.c)]

ir_read_int(s, i0) ==
  LET r == ScanD(s, i0) IN [io |-> r.io, ret |-> SExt(r.i)]

ir_flush(s) == fflush(s)

\* the primitive of the variant v
PrintByteOf(v, s, c) ==
  CASE v = "lib" -> lib_printc(s, c) [] v = "ext" -> ext_printc(s, c) [] v = "ir" -> ir_print_byte(s, c)
PrintIntOf(v, s, i) ==
  CASE v = "lib" -> lib_printi(s, i) [] v = "ext" -> ext_printi(s, i) [] v = "ir" -> ir_print_int(s, i)
ReadByteOf(v, s) ==
  CASE v = "lib" -> lib_readc(s) [] v = "ext" -> ext_readc(s) [] v = "ir" -> ir_read_byte(s)
ReadIntOf(v, s, i0) ==
  CASE v = "lib" -> lib_readi(s, i0) [] v = "ext" -> ext_readi(s, i0) [] v = "ir" -> ir_read_int(s, i0)
FlushOf(v, s) ==
  CASE v = "lib" -> lib_flush(s) [] v = "ext" -> ext_flush(s) [] v = "ir" -> ir_flush(s)

\* ------------------------------------------------------------ stack guard
\* fprintf(stderr, ...); fflush(stderr); exit(1);
Fatal(line) ==
  /\ stderr' = stderr \o line
  /\ syslog' = syslog \o <<"fprintf", "fflush", "exit">>
  /\ io' = ExitFlush(io)
  /\ exit_status' = <<1>>
  /\ pc' = "exited"
  /\ need' = need

\* the check returns to the generated code, which goes on at next
Return(next, n) ==
  /\ pc' = next
  /\ need' = n
  /\ UNCHANGED <<stderr, syslog, io, exit_status>>

\* variants of check_stack with a slip in them
\* if (stack_len + 1 < n)
ext_check_stack_off_by_one(n, location) ==
  /\ UNCHANGED <<stack_len, call_stack_len>>
  /\ IF U64Lt(U64Inc(stack_len), n)
     THEN Fatal(StackUnderflowAt \o location \o <<10>>)
     ELSE Return("checked", n)

\* if (stack_len <= n)
ext_check_stack_le(n, location) ==
  /\ UNCHANGED <<stack_len, call_stack_len>>
  /\ IF U64Lt(stack_len, n) \/ stack_len = n
     THEN Fatal(StackUnderflowAt \o location \o <<10>>)
     ELSE Return("checked", n)

\* fflush(stderr) left out
ext_check_stack_no_flush(n, location) ==
  /\ UNCHANGED <<stack_len, call_stack_len>>
  /\ IF U64Lt(stack_len, n)
     THEN /\ stderr' = stderr \o StackUnderflowAt \o location \o <<10>>
          /\ syslog' = syslog \o <<"fprintf", "exit">>
          /\ io' = ExitFlush(io)
          /\ exit_status' = <<1>>
          /\ pc' = "exited"
          /\ need' = need
     ELSE Return("checked", n)

\* the check takes the n values off the counter itself
ext_check_stack_pops(n, location) ==
  /\ UNCHANGED call_stack_len
  /\ IF U64Lt(stack_len, n)
     THEN Fatal(StackUnderflowAt \o location \o <<10>>) /\ UNCHANGED stack_len
     ELSE Return("checked", n) /\ stack_len' = U64Sub(stack_len, n)

\* codegen/ext/ext.c
ext_check_stack(n, location) ==
  /\ UNCHANGED <<stack_len, call_stack_len>>
  /\ IF U64Lt(stack_len, n)
     THEN Fatal(StackUnderflowAt \o location \o <<10>>)
     ELSE Return("checked", n)

\* if (stack_len < 1): the wrong counter
ext_check_call_stack_data(location) ==
  /\ UNCHANGED <<stack_len, call_stack_len>>
  /\ IF U64Lt(stack_len, U64Of(1))
     THEN Fatal(CallStackUnderflowAt \o location \o <<10>>)
     ELSE Return("checked_call", need)

ext_check_call_stack(location) ==
  /\ UNCHANGED <<stack_len, call_stack_len>>
  /\ IF U64Lt(call_stack_len, U64Of(1))
     THEN Fatal(CallStackUnderflowAt \o location \o <<10>>)
     ELSE Return("checked_call", need)

\* ir/codegen/ext/ext.c
ir_check_stack(n, block, pos) ==
  /\ UNCHANGED <<stack_len, call_stack_len>>
  /\ IF U64Lt(stack_len, n)
     THEN Fatal(DataStackUnderflowIn \o block \o At \o pos \o <<10>>)
     ELSE Return("checked", n)

ir_check_call_stack(block, pos) ==
  /\ UNCHANGED <<stack_len, call_stack_len>>
  /\ IF U64Lt(call_stack_len, U64Of(1))
     THEN Fatal(CallStackUnderflowIn \o block \o At \o pos \o <<10>>)
     ELSE Return("checked_call", need)

\* ------------------------------------------------- the generated program
\* a process linked against one of the runtimes vs and started on one of the
\* input streams ins: both counters are zero and nothing has been written
InitProc(vs, ins) ==
  /\ variant \in vs
  /\ stdin0 \in ins
  /\ io = IO0(stdin0)
  /\ stack_len = U64Of(0)
  /\ call_stack_len = U64Of(0)
  /\ stack = <<>>
  /\ calls = <<>>
  /\ pc = "run"
  /\ need = U64Of(0)
  /\ exit_status = <<>>
  /\ stderr = <<>>
  /\ syslog = <<>>
  /\ call = NoCall
  /\ rets = <<>>

Init ==
  /\ InitProc(GuardVariants, { <<>> })
  /\ link = Link0
  /\ pipe = Pipe0

Did(fn, arg, loc, ret) == call' = [fn |-> fn, arg |-> arg, loc |-> loc, ret |-> ret]

\* a value is pushed on the data stack
Push ==
  /\ pc = "run"
  /\ Len(stack) < MaxDepth
  /\ stack' = Append(stack, 0)
  /\ stack_len' = U64Inc(stack_len)
  /\ Did("push", <<>>, <<>>, <<>>)
  /\ UNCHANGED <<variant, call_stack_len, calls, pc, need, exit_status, io, stderr,
                 syslog, rets, stdin0, link, pipe>>

\* the check the generated code makes before it pops n values
CheckStack ==
  /\ pc = "run"
  /\ \E n \in NArgs :
       \/ /\ variant = "ext"
          /\ \E location \in Locs :
               /\ ext_check_stack(n, location)
               /\ Did("check_stack", n, <<location>>, <<>>)
       \/ /\ variant = "ir"
          /\ \E block \in Locs, pos \in Poss :
               /\ ir_check_stack(n, block, pos)
               /\ Did("check_stack", n, <<block, pos>>, <<>>)
  /\ UNCHANGED <<variant, stack, calls, rets, stdin0, link, pipe>>

\* the pops that follow a check that returned
Pop ==
  /\ pc = "checked"
  /\ stack' = IF U64Lt(U64Of(Len(stack)), need) THEN <<>>
              ELSE SubSeq(stack, 1, Len(stack) - need[4])
  /\ stack_len' = U64Sub(stack_len, need)
  /\ pc' = "run"
  /\ Did("pop", need, <<>>, <<>>)
  /\ UNCHANGED <<variant, call_stack_len, calls, need, exit_status, io, stderr,
                 syslog, rets, stdin0, link, pipe>>

\* a call pushes a frame on the call stack
Call ==
  /\ pc = "run"
  /\ Len(calls) < MaxCalls
  /\ calls' = Append(calls, 0)
  /\ call_stack_len' = U64Inc(call_stack_len)
  /\ Did("call", <<>>, <<>>, <<>>)
  /\ UNCHANGED <<variant, stack_len, stack, pc, need, exit_status, io, stderr,
                 syslog, rets, stdin0, link, pipe>>

\* the check the generated code makes before it returns from a call
CheckCallStack ==
  /\ pc = "run"
  /\ \/ /\ variant = "ext"
        /\ \E location \in Locs :
             /\ ext_check_call_stack(location)
             /\ Did("check_call_stack", <<>>, <<location>>, <<>>)
     \/ /\ variant = "ir"
        /\ \E block \in Locs, pos \in Poss :
             /\ ir_check_call_stack(block, pos)
             /\ Did("check_call_stack", <<>>, <<block, pos>>, <<>>)
  /\ UNCHANGED <<variant, stack, calls, rets, stdin0, link, pipe>>

\* the return that follows a call-stack check that returned
Ret ==
  /\ pc = "checked_call"
  /\ calls' = IF calls = <<>> THEN <<>> ELSE SubSeq(calls, 1, Len(calls) - 1)
  /\ call_stack_len' = U64Sub(call_stack_len, U64Of(1))
  /\ pc' = "run"
  /\ Did("ret", <<>>, <<>>, <<>>)
  /\ UNCHANGED <<variant, stack_len, stack, need, exit_status, io, stderr,
                 syslog, rets, stdin0, link, pipe>>

PrintByte ==
  /\ pc = "run"
  /\ Len(io.out) + Len(io.obuf) < MaxOut
  /\ \E c \in ByteArgs :
       /\ io' = PrintByteOf(variant, io, c)
       /\ Did("print_byte", c, <<>>, <<>>)
  /\ UNCHANGED <<guardVars, variant, rets, stdin0, link, pipe>>

PrintInt ==
  /\ pc = "run"
  /\ Len(io.out) + Len(io.obuf) < MaxOut
  /\ \E i \in IntArgs :
       /\ io' = PrintIntOf(variant, io, i)
       /\ Did("print_int", i, <<>>, <<>>)
  /\ UNCHANGED <<guardVars, variant, rets, stdin0, link, pipe>>

ReadByte ==
  /\ pc = "run"
  /\ Len(rets) < MaxReads
  /\ LET r == ReadByteOf(variant, io)
     IN  /\ io' = r.io
         /\ rets' = Append(rets, r.ret)
         /\ Did("read_byte", <<>>, <<>>, r.ret)
  /\ UNCHANGED <<guardVars, variant, stdin0, link, pipe>>

Flush ==
  /\ pc = "run"
  /\ io' = FlushOf(variant, io)
  /\ Did("flush", <<>>, <<>>, <<>>)
  /\ UNCHANGED <<guardVars, variant, rets, stdin0, link, pipe>>

\* the generated program ends normally
Halt ==
  /\ pc = "run"
  /\ pc' = "exited"
  /\ exit_status' = <<0>>
  /\ io' = ExitFlush(io)
  /\ syslog' = Append(syslog, "exit")
  /\ Did("halt", <<>>, <<>>, <<>>)
  /\ UNCHANGED <<variant, stack_len, call_stack_len, stack, calls, need, stderr,
                 rets, stdin0, link, pipe>>

\* a generated program that works on its stacks and writes bytes
Next ==
  \/ Push
  \/ CheckStack
  \/ Pop
  \/ Call
  \/ CheckCallStack
  \/ Ret
  \/ PrintByte
  \/ Flush
  \/ Halt

Spec == Init /\ [][Next]_vars

\* a generated program that reads its input and writes bytes and integers
InitIO ==
  /\ InitProc(GuardVariants, Inputs)
  /\ link = Link0
  /\ pipe = Pipe0

NextIO ==
  \/ PrintByte
  \/ PrintInt
  \/ ReadByte
  \/ Flush
  \/ Halt

SpecIO == InitIO /\ [][NextIO]_vars

\* ------------------------------------------- round trip through a pipe
\* a process linked against pipe.variant writes the byte pipe.c and ends; a
\* second process of the same variant is started on that output and reads
IdleProc == InitProc({ "ext" }, { <<>> })

InitPipe ==
  /\ IdleProc
  /\ link = Link0
  /\ pipe \in { [variant |-> v, c |-> c, stage |-> "write", writer |-> IO0(<<>>),
                 reader |-> IO0(<<>>), ret |-> <<>>] : v \in Variants, c \in 0..255 }

PipeWrite ==
  /\ pipe.stage = "write"
  /\ pipe' = [pipe EXCEPT !.writer = PrintByteOf(pipe.variant, pipe.writer, SExt(pipe.c)),
                          !.stage = "written"]
  /\ UNCHANGED <<procVars, link>>

\* the writer ends; what it delivered is the reader's input stream
PipeExit ==
  /\ pipe.stage = "written"
  /\ pipe' = [pipe EXCEPT !.writer = ExitFlush(pipe.writer),
                          !.reader = IO0(ExitFlush(pipe.writer).out),
                          !.stage = "piped"]
  /\ UNCHANGED <<procVars, link>>

PipeRead ==
  /\ pipe.stage = "piped"
  /\ LET r == ReadByteOf(pipe.variant, pipe.reader)
     IN  pipe' = [pipe EXCEPT !.reader = r.io, !.ret = r.ret, !.stage = "read"]
  /\ UNCHANGED <<procVars, link>>

NextPipe ==
  \/ PipeWrite
  \/ PipeExit
  \/ PipeRead

SpecPipe == InitPipe /\ [][NextPipe]_vars

\* ------------------------------------- the three variants side by side
\* the same input stream and the same calls, made on each variant
\* "", "A", "42", "-7", " 1", "A1", "123\n"
EqInputs == { <<>>, <<65>>, <<52, 50>>, <<45, 55>>, <<32, 49>>, <<65, 49>>,
              <<49, 50, 51, 10>> }

\* values an uninitialised int may hold
Indeterminate == { 0, 12345 }

InitEq ==
  /\ IdleProc
  /\ pipe = Pipe0
  /\ link \in { LinkOf(input) : input \in EqInputs }

EqStep(rt, undef) ==
  /\ link.ops < MaxEqOps
  /\ link' = [ops |-> link.ops + 1, undef |-> undef, rt |-> rt]
  /\ UNCHANGED <<procVars, pipe>>

EqPrintByte ==
  \E c \in ByteArgs :
    EqStep([v \in Variants |-> [io |-> PrintByteOf(v, link.rt[v].io, c), ret |-> <<>>]], FALSE)

EqPrintInt ==
  \E i \in IntArgs :
    EqStep([v \in Variants |-> [io |-> PrintIntOf(v, link.rt[v].io, i), ret |-> <<>>]], FALSE)

EqReadByte ==
  EqStep([v \in Variants |-> ReadByteOf(v, link.rt[v].io)], FALSE)

\* each variant's local i starts with a value of its own
EqReadInt ==
  \E i0 \in [Variants -> Indeterminate] :
    EqStep([v \in Variants |-> ReadIntOf(v, link.rt[v].io, i0[v])],
           \E v \in Variants : ScanD(link.rt[v].io, 0).n = 0)

EqFlush ==
  EqStep([v \in Variants |-> [io |-> FlushOf(v, link.rt[v].io), ret |-> <<>>]], FALSE)

NextEq ==
  \/ EqPrintByte
  \/ EqPrintInt
  \/ EqReadByte
  \/ EqReadInt
  \/ EqFlush

SpecEq == InitEq /\ [][NextEq]_vars

\* ================================================================ claims
Contains(text, part) ==
  \E k \in 1..(Len(text) - Len(part) + 1) : SubSeq(text, k, k + Len(part) - 1) = part

ContainsAll(text, tags) == \A k \in 1..Len(tags) : Contains(text, tags[k])

\* what a step appended to a text
Written(old, new) == SubSeq(new, Len(old) + 1, Len(new))

OneLine(t) == /\ t # <<>>
              /\ t[Len(t)] = 10
              /\ \A k \in 1..(Len(t) - 1) : t[k] # 10

Stdout(s) == s.out \o s.obuf

IsCheck(fn) == fn \in { "check_stack", "check_call_stack" }

\* C1: a data-stack check asked for n while the depth is d < n ends the
\* process with exit status 1 and writes a diagnostic on the error stream
\* that contains the supplied location (tag, or block and position).
C1_UnderflowTerminates ==
  [][ (pc = "run" /\ call'.fn = "check_stack" /\ U64Lt(stack_len, call'.arg))
        => /\ pc' = "exited"
           /\ exit_status' = <<1>>
           /\ Written(stderr, stderr') # <<>>
           /\ ContainsAll(Written(stderr, stderr'), call'.loc) ]_vars

C1_Witness ==
  /\ variant = "ir"
  /\ call.fn = "check_stack"
  /\ stack_len = U64Of(2)
  /\ call.arg = U64Of(3)
  /\ pc = "exited"
  /\ Len(call.loc) = 2

\* C2: a data-stack check asked for n while the depth is d >= n returns to
\* its caller: nothing is written on the error stream and the process runs on.
C2_SufficientReturns ==
  [][ (pc = "run" /\ call'.fn = "check_stack" /\ ~U64Lt(stack_len, call'.arg))
        => /\ pc' = "checked"
           /\ exit_status' = <<>>
           /\ stderr' = stderr
           /\ syslog' = syslog ]_vars

C2_Witness ==
  /\ call.fn = "check_stack"
  /\ pc = "checked"
  /\ stack_len = U64Of(2)
  /\ call.arg = U64Of(2)

\* C3: a call-stack check ends the process with exit status 1 and a
\* diagnostic containing the location when the call stack depth is 0, and
\* returns with no diagnostic when it is at least 1, whatever the data
\* stack depth is.
C3_CallStackCheck ==
  [][ (pc = "run" /\ call'.fn = "check_call_stack")
        => IF call_stack_len = U64Of(0)
           THEN /\ pc' = "exited"
                /\ exit_status' = <<1>>
                /\ ContainsAll(Written(stderr, stderr'), call'.loc)
           ELSE /\ pc' = "checked_call"
                /\ exit_status' = <<>>
                /\ stderr' = stderr
                /\ syslog' = syslog ]_vars

C3_Witness ==
  /\ call.fn = "check_call_stack"
  /\ call_stack_len = U64Of(0)
  /\ stack_len = U64Of(2)
  /\ pc = "exited"
  /\ exit_status = <<1>>

\* any operation of the generated program, on its stacks or on its streams
AnyOperation == Next \/ PrintInt \/ ReadByte

\* C4: a failing check writes exactly one line on the error stream, then
\* flushes the error stream, then exits with status 1; it appends nothing to
\* standard output and touches neither the input nor the stacks; once the
\* process has ended no operation takes place any more.
C4_FailureSequence ==
  /\ [][ /\ ( /\ pc = "run"
              /\ \/ call'.fn = "check_stack" /\ U64Lt(stack_len, call'.arg)
                 \/ call'.fn = "check_call_stack" /\ call_stack_len = U64Of(0) )
            => /\ syslog' = syslog \o <<"fprintf", "fflush", "exit">>
               /\ OneLine(Written(stderr, stderr'))
               /\ exit_status' = <<1>>
               /\ pc' = "exited"
               /\ Stdout(io') = Stdout(io)
               /\ io'.in = io.in
               /\ stack' = stack /\ calls' = calls
         /\ pc = "exited" => vars' = vars ]_vars
  /\ [](pc = "exited" => ~ENABLED AnyOperation)

C4_Witness ==
  /\ pc = "exited"
  /\ exit_status = <<1>>
  /\ IsCheck(call.fn)
  /\ io.out # <<>>
  /\ syslog = <<"fprintf", "fflush", "exit">>

\* C5: a check, passing or failing, leaves both depth counters as they
\* were; a passing check changes neither stream.
C5_GuardReadsOnly ==
  [][ (pc = "run" /\ IsCheck(call'.fn))
        => /\ stack_len' = stack_len
           /\ call_stack_len' = call_stack_len
           /\ pc' # "exited" => (io' = io /\ stderr' = stderr /\ syslog' = syslog) ]_vars

C5_Witness ==
  /\ call.fn = "check_stack"
  /\ call.arg = U64Of(1)
  /\ pc = "checked"
  /\ stack_len = U64Of(2)
  /\ call_stack_len = U64Of(1)
  /\ io.obuf # <<>>
\* C6: a byte c in 0..255 written by the print-byte primitive and read back,
\* by a process started on that output, with the read-byte primitive of the
\* same runtime variant comes back as c, for each of the three variants.
C6_ByteRoundTrip ==
  pipe.stage = "read" => pipe.ret = SExt(pipe.c)

\* the value of a decimal numeral, accumulated below zero so that -2^31 fits
RECURSIVE NegValue(_, _)
NegValue(ds, acc) ==
  IF ds = <<>> THEN acc ELSE NegValue(Tail(ds), acc * 10 - (Head(ds) - 48))

Numeral(t) ==
  /\ t # <<>>
  /\ LET ds == IF t[1] = 45 THEN Tail(t) ELSE t
     IN  /\ ds # <<>>
         /\ \A k \in 1..Len(ds) : ds[k] \in 48..57
         /\ ds[1] = 48 => (Len(ds) = 1 /\ t[1] # 45)

ValueOf(t) == IF t[1] = 45 THEN NegValue(Tail(t), 0) ELSE 0 - NegValue(t, 0)

InInt32(v) ==
  \/ v[1] = 0 /\ v[2] = 0 /\ v[3] < Limb \div 2
  \/ v[1] = Limb - 1 /\ v[2] = Limb - 1 /\ v[3] >= Limb \div 2

C8_ReadByteSequence ==
  /\ \A k \in 1..Len(rets) :
       rets[k] = IF k <= Len(stdin0) THEN <<0, 0, 0, stdin0[k]>>
                 ELSE <<Limb - 1, Limb - 1, Limb - 1, Limb - 1>>
  /\ \A k \in 1..Len(stdin0) : stdin0[k] \in 0..255
  /\ io.in = SubSeq(stdin0, Len(stdin0) - Len(io.in) + 1, Len(stdin0))
  /\ Len(stdin0) - Len(io.in) = IF Len(rets) < Len(stdin0) THEN Len(rets) ELSE Len(stdin0)

C8_Witness ==
  /\ stdin0 = <<65, 255>>
  /\ rets = << <<0, 0, 0, 65>>, <<0, 0, 0, 255>>,
               <<Limb - 1, Limb - 1, Limb - 1, Limb - 1>>,
               <<Limb - 1, Limb - 1, Limb - 1, Limb - 1>> >>
  /\ call.fn = "read_byte"

\* C9: on the same input stream and the same calls the three variants leave
\* the same unread input and the same standard output (delivered and
\* buffered) and return the same values; a read-int call that found no
\* integer returns an indeterminate value, which is left out of the comparison.
C9_VariantsAgree ==
  \A v, w \in Variants :
    /\ link.rt[v].io = link.rt[w].io
    /\ ~link.undef => link.rt[v].ret = link.rt[w].ret

\* C10: with every pop preceded by a check for the number of values popped,
\* the counter always equals the number of values on the data stack (it
\* never wraps below zero), and a check for more values than are present
\* ends the process with the counter and the stack as they were.
C10_GuardedDepth ==
  /\ [](stack_len = <<0, 0, 0, Len(stack)>>)
  /\ [][ (pc = "run" /\ call'.fn = "check_stack" /\ U64Lt(<<0, 0, 0, Len(stack)>>, call'.arg))
           => /\ pc' = "exited"
              /\ stack_len' = stack_len
              /\ stack' = stack ]_vars
  /\ [][ pc = "exited" => (stack_len' = stack_len /\ stack' = stack) ]_vars

C10_Witness ==
  /\ call.fn = "pop"
  /\ call.arg = U64Of(1)
  /\ stack_len = U64Of(1)
  /\ Len(stack) = 1

====
